---- MODULE Spec2Model ----
(***************************************************************************)
(* A model of the cloudflare-go client (src/cloudflare.go): NewConfig, the *)
(* request construction of the services, BaseSvc.Invoke, BaseSvc.Decode    *)
(* and the six service operations.                                         *)
(*                                                                         *)
(* Texts that are only concatenated (URLs) are sequences of pieces whose   *)
(* concatenation is the text.  Texts that are escaped (the arguments of    *)
(* Search) are sequences of one-character strings.  Identifiers that are   *)
(* only copied and compared (record ids, names, e-mail, key) are strings.  *)
(***************************************************************************)
EXTENDS Integers, Sequences, FiniteSets, TLC

VARIABLES
    config,      \* the *Config the services were built from
    cfgCall,     \* the arguments of the last NewConfig call
    pc,          \* position of the running operation
    op,          \* the operation that is running or has returned
    args,        \* its arguments
    req,         \* the request Invoke built
    resp,        \* what Invoke handed back: response and error
    body,        \* state of the response body stream
    msg,         \* the Message (envelope) Decode filled
    target,      \* the value the result payload is decoded into
    err,         \* the operation's err variable
    decodeRuns,  \* how often the operation ran Decode
    closeCalls,  \* how often the operation called resp.Body.Close()
    ret          \* what the operation returned

vars == <<config, cfgCall, pc, op, args, req, resp, body, msg, target, err,
          decodeRuns, closeCalls, ret>>

----------------------------------------------------------------------------
(* Bounds of the model *)

MaxElems == 2      \* longest JSON array in a result payload
MaxStr == 2        \* longest Search argument, in characters
MaxPage == 2       \* largest page argument
MaxPerPage == 101  \* largest perPage argument

----------------------------------------------------------------------------
(* Program constants *)

ContentTypeApplicationJson == "application/json"
ApiUrlBase == "https://api.cloudflare.com/client/v4"
APiUrlZones == "/zones/"
ApiUrlDnsRecords == "/dns_records/"

PerPageMin == 5
PerPageLimit == 100

----------------------------------------------------------------------------
(* Characters: the printable ASCII characters, by code; the three that a   *)
(* string literal cannot hold are spelled out and never occur in an input. *)

Ascii == << " ", "!", "DQUOTE", "#", "$", "%", "&", "'", "(", ")", "*", "+", ",",
            "-", ".", "/", "0", "1", "2", "3", "4", "5", "6", "7", "8", "9",
            ":", ";", "<", "=", ">", "?", "@", "A", "B", "C", "D", "E", "F",
            "G", "H", "I", "J", "K", "L", "M", "N", "O", "P", "Q", "R", "S",
            "T", "U", "V", "W", "X", "Y", "Z", "[", "BSLASH", "]", "^", "_", "BTICK",
            "a", "b", "c", "d", "e", "f", "g", "h", "i", "j", "k", "l", "m",
            "n", "o", "p", "q", "r", "s", "t", "u", "v", "w", "x", "y", "z",
            "{", "|", "}", "~" >>

Ord(c) == 31 + (CHOOSE i \in 1..Len(Ascii) : Ascii[i] = c)

Chr(n) == Ascii[n - 31]

\* byte-wise order of two texts, as sort.Strings compares them
RECURSIVE StrLess(_, _)
StrLess(a, b) ==
    IF b = <<>> THEN FALSE
    ELSE IF a = <<>> THEN TRUE
    ELSE IF Ord(Head(a)) # Ord(Head(b)) THEN Ord(Head(a)) < Ord(Head(b))
    ELSE StrLess(Tail(a), Tail(b))

\* fmt.Sprintf("%d", n)
RECURSIVE Digits(_)
Digits(n) ==
    IF n < 10 THEN << Chr(48 + n) >>
    ELSE Digits(n \div 10) \o << Chr(48 + (n % 10)) >>

SprintfD(n) == IF n < 0 THEN <<"-">> \o Digits(0 - n) ELSE Digits(n)

----------------------------------------------------------------------------
(* net/url: QueryEscape and Values *)

IsAlnum(c) ==
    LET o == Ord(c) IN
    \/ (48 <= o /\ o <= 57)
    \/ (65 <= o /\ o <= 90)
    \/ (97 <= o /\ o <= 122)

ShouldEscape(c) == ~(IsAlnum(c) \/ c \in {"-", "_", ".", "~"})

UpperHex == <<"0", "1", "2", "3", "4", "5", "6", "7", "8", "9",
              "A", "B", "C", "D", "E", "F">>

EscapeChar(c) ==
    IF c = " " THEN <<"+">>
    ELSE IF ShouldEscape(c)
         THEN <<"%", UpperHex[(Ord(c) \div 16) + 1], UpperHex[(Ord(c) % 16) + 1]>>
         ELSE <<c>>

RECURSIVE QueryEscape(_)
QueryEscape(s) ==
    IF s = <<>> THEN <<>> ELSE EscapeChar(Head(s)) \o QueryEscape(Tail(s))

\* url.Values is a map from key to the values added under it, in order;
\* here the sequence of the Add calls, [k |-> key, v |-> value].
ValuesAdd(v, key, value) == Append(v, [k |-> key, v |-> value])

ValuesKeys(v) == {v[i].k : i \in 1..Len(v)}

RECURSIVE SortKeys(_)
SortKeys(ks) ==
    IF ks = {} THEN <<>>
    ELSE LET m == CHOOSE x \in ks : \A y \in ks \ {x} : StrLess(x, y)
         IN  <<m>> \o SortKeys(ks \ {m})

RECURSIVE EncodeFrom(_, _, _, _)
EncodeFrom(v, keys, i, buf) ==
    IF keys = <<>> THEN buf
    ELSE IF i > Len(v) THEN EncodeFrom(v, Tail(keys), 1, buf)
    ELSE IF v[i].k # Head(keys) THEN EncodeFrom(v, keys, i + 1, buf)
    ELSE EncodeFrom(v, keys, i + 1,
             (IF Len(buf) > 0 THEN buf \o <<"&">> ELSE buf)
                \o QueryEscape(Head(keys)) \o <<"=">> \o QueryEscape(v[i].v))

\* keys in the order of their first Add
RECURSIVE KeysInOrder(_, _)
KeysInOrder(v, seen) ==
    IF v = <<>> THEN <<>>
    ELSE IF Head(v).k \in seen THEN KeysInOrder(Tail(v), seen)
    ELSE <<Head(v).k>> \o KeysInOrder(Tail(v), seen \cup {Head(v).k})

\* Encode without the sort of the keys
ValuesEncodeUnsorted(v) == EncodeFrom(v, KeysInOrder(v, {}), 1, <<>>)

ValuesEncode(v) == EncodeFrom(v, SortKeys(ValuesKeys(v)), 1, <<>>)

----------------------------------------------------------------------------
(* Values of the program *)

NoError == ""

\* Zone and DNSRecord, reduced to the two fields every operation carries
ZeroRec == [Id |-> "", Name |-> ""]

\* a decode target: a slice of records (nil or not) or a single record
NilList == [kind |-> "list", isNil |-> TRUE, items |-> <<>>, rec |-> ZeroRec]

RecTarget(r) == [kind |-> "rec", isNil |-> TRUE, items |-> <<>>, rec |-> r]

ZeroTarget(kind) == IF kind = "list" THEN NilList ELSE RecTarget(ZeroRec)

\* the zero Message
ZeroMessage == [Success |-> FALSE, Result |-> [k |-> "absent", elems |-> <<>>]]

----------------------------------------------------------------------------
(* JSON documents a response body can hold.                                *)
(* A field of an object is absent, a string or a number; an element of an  *)
(* array is an object or a number; a result payload is absent, null, a     *)
(* number, one object (elems has one element) or an array.                 *)

FieldAbsent == [k |-> "absent", s |-> ""]

IdFields == {FieldAbsent, [k |-> "num", s |-> ""], [k |-> "str", s |-> "a"]}

NameFields == {FieldAbsent, [k |-> "str", s |-> "n"]}

Objects == [k : {"obj"}, id : IdFields, name : NameFields]

NumElem == [k |-> "num", id |-> FieldAbsent, name |-> FieldAbsent]

Elems == Objects \cup {NumElem}

SeqsUpTo(S, n) == UNION {[1..m -> S] : m \in 0..n}

Results ==
    {[k |-> x, elems |-> <<>>] : x \in {"absent", "null", "num"}}
    \cup {[k |-> "obj", elems |-> <<o>>] : o \in Objects}
    \cup {[k |-> "arr", elems |-> e] : e \in SeqsUpTo(Elems, MaxElems)}

\* a body that is no JSON value at all (malformed or truncated)
BadSyntaxBody ==
    [syntax |-> FALSE, top |-> "none", success |-> "absent", infoOk |-> TRUE,
     result |-> [k |-> "absent", elems |-> <<>>]]

\* a JSON value that is no object (a number, an array)
NonObjectBody ==
    [syntax |-> TRUE, top |-> "other", success |-> "absent", infoOk |-> TRUE,
     result |-> [k |-> "absent", elems |-> <<>>]]

\* a JSON object: success is absent, true, false or of the wrong type;
\* infoOk is FALSE when a field of result_info has the wrong type
ObjectBodies(R) ==
    [syntax : {TRUE}, top : {"obj"},
     success : {"absent", "true", "false", "badtype"},
     infoOk : BOOLEAN, result : R]

Bodies == {BadSyntaxBody, NonObjectBody} \cup ObjectBodies(Results)

\* the body is a well-formed envelope: an object whose fields have their types
WellFormed(b) == b.syntax /\ b.top = "obj" /\ b.success # "badtype" /\ b.infoOk

----------------------------------------------------------------------------
(* encoding/json as Decode uses it *)

\* a string field of a struct: a JSON string is stored, a number is a type
\* error that leaves the field alone, an absent key leaves it alone
UnmarshalField(cur, f) == IF f.k = "str" THEN f.s ELSE cur

FieldTypeError(f) == f.k = "num"

\* one JSON value into a struct
UnmarshalStruct(cur, e) ==
    IF e.k = "obj"
    THEN [Id |-> UnmarshalField(cur.Id, e.id), Name |-> UnmarshalField(cur.Name, e.name)]
    ELSE cur

StructTypeError(e) ==
    IF e.k = "obj" THEN FieldTypeError(e.id) \/ FieldTypeError(e.name) ELSE TRUE

\* json.Unmarshal(data, result): the filled target and the error.  A type
\* error is recorded and decoding goes on; the first one is returned.
Unmarshal(data, tgt) ==
    IF data.k = "absent"
    THEN [target |-> tgt, err |-> "SyntaxError"]
    ELSE IF data.k = "null"
    THEN [target |-> IF tgt.kind = "list" THEN NilList ELSE tgt, err |-> NoError]
    ELSE IF tgt.kind = "list"
    THEN IF data.k = "arr"
         THEN [target |-> [tgt EXCEPT !.isNil = FALSE,
                               !.items = [i \in 1..Len(data.elems) |->
                                             UnmarshalStruct(ZeroRec, data.elems[i])]],
               err |-> IF \E i \in 1..Len(data.elems) : StructTypeError(data.elems[i])
                       THEN "UnmarshalTypeError" ELSE NoError]
         ELSE [target |-> tgt, err |-> "UnmarshalTypeError"]
    ELSE IF data.k = "obj"
         THEN [target |-> [tgt EXCEPT !.rec = UnmarshalStruct(tgt.rec, data.elems[1])],
               err |-> IF StructTypeError(data.elems[1])
                       THEN "UnmarshalTypeError" ELSE NoError]
         ELSE [target |-> tgt, err |-> "UnmarshalTypeError"]

\* json.NewDecoder(resp.Body).Decode(&msg): the filled Message and the error.
\* A read error or a syntax error leaves msg alone; a field of the wrong type
\* is an error that leaves only that field alone.
DecodeMessage(bodyClosed, b) ==
    IF bodyClosed THEN [msg |-> ZeroMessage, err |-> "ReadOnClosedBody"]
    ELSE IF ~b.syntax THEN [msg |-> ZeroMessage, err |-> "SyntaxError"]
    ELSE IF b.top # "obj" THEN [msg |-> ZeroMessage, err |-> "UnmarshalTypeError"]
    ELSE [msg |-> [Success |-> (b.success = "true"), Result |-> b.result],
          err |-> IF b.success = "badtype" \/ ~b.infoOk
                  THEN "UnmarshalTypeError" ELSE NoError]

\* Decode without the test of msg.Success
DecodeUngated(bodyClosed, b, tgt) ==
    LET first == DecodeMessage(bodyClosed, b) IN
    IF first.err = NoError
    THEN LET second == Unmarshal(first.msg.Result, tgt)
         IN  [msg |-> first.msg, target |-> second.target, err |-> second.err]
    ELSE [msg |-> first.msg, target |-> tgt, err |-> first.err]

\* BaseSvc.Decode
Decode(bodyClosed, b, tgt) ==
    LET first == DecodeMessage(bodyClosed, b) IN
    IF first.msg.Success
    THEN LET second == Unmarshal(first.msg.Result, tgt)
         IN  [msg |-> first.msg, target |-> second.target, err |-> second.err]
    ELSE [msg |-> first.msg, target |-> tgt, err |-> first.err]

----------------------------------------------------------------------------
(* Config *)

NilConfig ==
    [isNil |-> TRUE, email |-> "", key |-> "", contentType |-> "",
     insecureSkipVerify |-> FALSE]

\* NewConfig that rejects only when both are empty
NewConfigBoth(email, key, contentType, insecureSkipVerify) ==
    IF email = "" /\ key = "" THEN NilConfig
    ELSE [isNil |-> FALSE, email |-> email, key |-> key,
          contentType |-> IF contentType = "" THEN ContentTypeApplicationJson
                          ELSE contentType,
          insecureSkipVerify |-> insecureSkipVerify]

NewConfig(email, key, contentType, insecureSkipVerify) ==
    IF email = "" \/ key = "" THEN NilConfig
    ELSE [isNil |-> FALSE, email |-> email, key |-> key,
          contentType |-> IF contentType = "" THEN ContentTypeApplicationJson
                          ELSE contentType,
          insecureSkipVerify |-> insecureSkipVerify]

----------------------------------------------------------------------------
(* Requests *)

\* JsonString(d) of a DNSRecord: the non-empty fields in declaration order
\* (omitempty), then meta, which a struct-valued field never omits
JsonString(d) ==
    (IF d.Id # "" THEN <<[k |-> "id", v |-> d.Id]>> ELSE <<>>)
    \o (IF d.Name # "" THEN <<[k |-> "name", v |-> d.Name]>> ELSE <<>>)
    \o <<[k |-> "meta", v |-> "{}"]>>

NoBody == [has |-> FALSE, json |-> <<>>]

ReaderOf(json) == [has |-> TRUE, json |-> json]

\* the arguments a service hands to Invoke
Request(method, urlStr, b) ==
    [method |-> method, url |-> urlStr, body |-> b, headers |-> <<>>]

NoRequest == Request("", <<>>, NoBody)

ZonesUrl == <<ApiUrlBase, APiUrlZones>>

RecordsUrl(zoneId) == <<ApiUrlBase, APiUrlZones, zoneId, ApiUrlDnsRecords>>

KeyType == <<"t", "y", "p", "e">>
KeyName == <<"n", "a", "m", "e">>
KeyContent == <<"c", "o", "n", "t", "e", "n", "t">>
KeyPage == <<"p", "a", "g", "e">>
KeyPerPage == <<"p", "e", "r", "_", "p", "a", "g", "e">>

\* Search with the upper end of the per_page band included
SearchValuesInclusive(typeStr, name, content, page, perPage) ==
    LET v1 == IF typeStr # <<>> THEN ValuesAdd(<<>>, KeyType, typeStr) ELSE <<>>
        v2 == IF name # <<>> THEN ValuesAdd(v1, KeyName, name) ELSE v1
        v3 == IF content # <<>> THEN ValuesAdd(v2, KeyContent, content) ELSE v2
        v4 == IF page > 0 THEN ValuesAdd(v3, KeyPage, SprintfD(page)) ELSE v3
    IN  IF perPage >= PerPageMin /\ perPage <= PerPageLimit
        THEN ValuesAdd(v4, KeyPerPage, SprintfD(perPage)) ELSE v4

\* the url.Values Search fills
SearchValues(typeStr, name, content, page, perPage) ==
    LET v1 == IF typeStr # <<>> THEN ValuesAdd(<<>>, KeyType, typeStr) ELSE <<>>
        v2 == IF name # <<>> THEN ValuesAdd(v1, KeyName, name) ELSE v1
        v3 == IF content # <<>> THEN ValuesAdd(v2, KeyContent, content) ELSE v2
        v4 == IF page > 0 THEN ValuesAdd(v3, KeyPage, SprintfD(page)) ELSE v3
    IN  IF perPage >= PerPageMin /\ perPage < PerPageLimit
        THEN ValuesAdd(v4, KeyPerPage, SprintfD(perPage)) ELSE v4

SearchUrl(zoneId, typeStr, name, content, page, perPage) ==
    RecordsUrl(zoneId) \o <<"?">>
        \o ValuesEncode(SearchValues(typeStr, name, content, page, perPage))

\* identifiers in which a % starts no escape: url.Parse rejects a URL that
\* holds one, and http.NewRequest fails
InvalidPieces == {"%zz"}

UrlParses(urlStr) == \A i \in 1..Len(urlStr) : urlStr[i] \notin InvalidPieces

\* the headers Invoke adds
AuthHeaders(c) ==
    << [k |-> "X-Auth-Email", v |-> c.email],
       [k |-> "X-Auth-Key", v |-> c.key],
       [k |-> "Content-Type", v |-> c.contentType] >>

----------------------------------------------------------------------------
(* Responses *)

NoResponse == [tried |-> FALSE, present |-> FALSE, err |-> NoError, content |-> BadSyntaxBody]

\* what http.Client.Do can hand back: no response and an error; a response
\* and no error; or, when following redirects is stopped, the last response
\* with its body already closed together with an error
TransportFailure ==
    [tried |-> TRUE, present |-> FALSE, err |-> "TransportError", content |-> BadSyntaxBody]

RedirectFailure ==
    [tried |-> TRUE, present |-> TRUE, err |-> "RedirectError", content |-> BadSyntaxBody]

Answer(b) == [tried |-> TRUE, present |-> TRUE, err |-> NoError, content |-> b]

RequestFailure ==
    [tried |-> FALSE, present |-> FALSE, err |-> "RequestError", content |-> BadSyntaxBody]

BodyAfter(r) ==
    IF ~r.present THEN "none" ELSE IF r.err # NoError THEN "closed" ELSE "open"

\* what an operation returns: the sequence, the record or the id, and err
Returned(list, rec, id, e) == [list |-> list, rec |-> rec, id |-> id, err |-> e]

NoReturn == Returned(NilList, ZeroRec, "", NoError)

ListOps == {"ZonesGet", "Get", "Search"}

RecOps == {"Create", "Update"}

ServiceOps == ListOps \cup RecOps \cup {"Delete"}

----------------------------------------------------------------------------
(* Inputs *)

ValidConfig == NewConfig("user@example.com", "secret", "", FALSE)

ZoneIds == {"z1", "%zz"}

InRecords == {[Id |-> "", Name |-> "n"], [Id |-> "b", Name |-> "n"], [Id |-> "b", Name |-> ""]}

Alphabet == {"A", ".", " ", "&"}

Texts(n) == SeqsUpTo(Alphabet, n)

NoArgs ==
    [zoneId |-> "", rec |-> ZeroRec, typeStr |-> <<>>, name |-> <<>>,
     content |-> <<>>, page |-> 0, perPage |-> 0]

SearchArgs(zoneId, typeStr, name, content, page, perPage) ==
    [NoArgs EXCEPT !.zoneId = zoneId, !.typeStr = typeStr, !.name = name,
                   !.content = content, !.page = page, !.perPage = perPage]

\* Search arguments of the service runs: one filter, no paging
FewSearchArgs == {SearchArgs("z1", t, <<>>, <<>>, 0, 0) : t \in {<<>>, <<"A">>}}

\* Search arguments of the request-construction runs: every text with few
\* pagings, and every paging with few texts
TextSearchArgs ==
    {SearchArgs("z1", t, n, c, p, 0) :
        t \in Texts(1), n \in Texts(MaxStr), c \in {<<>>, <<"&">>}, p \in {0, 1}}

PagingSearchArgs ==
    {SearchArgs("z1", t, <<>>, <<>>, p, pp) :
        t \in {<<>>, <<"A">>}, p \in (0 - 1)..MaxPage, pp \in (0 - 1)..MaxPerPage}

WideSearchArgs == TextSearchArgs \cup PagingSearchArgs

SuccessBody(r) ==
    [syntax |-> TRUE, top |-> "obj", success |-> "true", infoOk |-> TRUE, result |-> r]

OneRecordList ==
    [k |-> "arr", elems |-> <<[k |-> "obj", id |-> [k |-> "str", s |-> "a"],
                               name |-> [k |-> "str", s |-> "n"]]>>]

FewSearchBodies == {BadSyntaxBody, SuccessBody(OneRecordList)}

\* targets a caller of Decode can pass in
PriorTargets == {NilList, RecTarget(ZeroRec), RecTarget([Id |-> "b", Name |-> "m"])}

----------------------------------------------------------------------------
(* The state machine *)

Init ==
    /\ config = ValidConfig
    /\ cfgCall = [email |-> "user@example.com", key |-> "secret", contentType |-> "",
                  insecureSkipVerify |-> FALSE]
    /\ pc = "idle"
    /\ op = "none"
    /\ args = NoArgs
    /\ req = NoRequest
    /\ resp = NoResponse
    /\ body = "none"
    /\ msg = ZeroMessage
    /\ target = NilList
    /\ err = NoError
    /\ decodeRuns = 0
    /\ closeCalls = 0
    /\ ret = NoReturn

\* The operations share no state but the immutable Config, so a behaviour is
\* one call from the idle state to its return.
Callable == pc = "idle" /\ ~config.isNil

\* entry of a service operation: its arguments, its named results at their
\* zero values, and the arguments it is about to hand to Invoke
Start(o, a, r, kind) ==
    /\ Callable
    /\ op' = o
    /\ args' = a
    /\ req' = r
    /\ resp' = NoResponse
    /\ body' = "none"
    /\ msg' = ZeroMessage
    /\ target' = ZeroTarget(kind)
    /\ err' = NoError
    /\ decodeRuns' = 0
    /\ closeCalls' = 0
    /\ ret' = NoReturn
    /\ pc' = "called"
    /\ UNCHANGED <<config, cfgCall>>

ZonesSvcGet == Start("ZonesGet", NoArgs, Request("GET", ZonesUrl, NoBody), "list")

DNSRecordsSvcGet ==
    \E z \in ZoneIds :
        Start("Get", [NoArgs EXCEPT !.zoneId = z],
              Request("GET", RecordsUrl(z), NoBody), "list")

SearchWith(A) ==
    \E a \in A :
        Start("Search", a,
              Request("GET", SearchUrl(a.zoneId, a.typeStr, a.name, a.content,
                                       a.page, a.perPage), NoBody),
              "list")

Search == SearchWith(FewSearchArgs)

SearchWide == SearchWith(WideSearchArgs)

Create ==
    \E z \in ZoneIds, d \in InRecords :
        Start("Create", [NoArgs EXCEPT !.zoneId = z, !.rec = d],
              Request("POST", RecordsUrl(z), ReaderOf(JsonString(d))), "rec")

Update ==
    \E z \in ZoneIds, d \in InRecords :
        Start("Update", [NoArgs EXCEPT !.zoneId = z, !.rec = d],
              Request("PUT", RecordsUrl(z) \o <<d.Id>>, ReaderOf(JsonString(d))), "rec")

Delete ==
    \E z \in ZoneIds, d \in InRecords :
        Start("Delete", [NoArgs EXCEPT !.zoneId = z, !.rec = d],
              Request("DELETE", RecordsUrl(z) \o <<d.Id>>, NoBody), "rec")

\* BaseSvc.Invoke, and the assignment of its results to resp and err
InvokeWith(B) ==
    /\ pc = "called"
    /\ IF ~UrlParses(req.url)
       THEN /\ resp' = RequestFailure
            /\ req' = req
       ELSE /\ resp' \in {TransportFailure, RedirectFailure} \cup {Answer(b) : b \in B}
            /\ req' = [req EXCEPT !.headers = AuthHeaders(config)]
    /\ body' = BodyAfter(resp')
    /\ err' = resp'.err
    /\ pc' = "invoked"
    /\ UNCHANGED <<config, cfgCall, op, args, msg, target, decodeRuns, closeCalls, ret>>

Invoke == InvokeWith(Bodies)

InvokeFew == InvokeWith(FewSearchBodies)

\* if resp == nil { return <zero>, err }
ReturnAbsent ==
    /\ pc = "invoked"
    /\ op \in ServiceOps
    /\ ~resp.present
    /\ ret' = Returned(NilList, ZeroRec, "", err)
    /\ pc' = "done"
    /\ UNCHANGED <<config, cfgCall, op, args, req, resp, body, msg, target, err,
                   decodeRuns, closeCalls>>

\* err = svc.Decode(resp, &result)
RunDecode ==
    /\ pc = "invoked"
    /\ resp.present
    /\ LET d == Decode(body = "closed", resp.content, target) IN
        /\ msg' = d.msg
        /\ target' = d.target
        /\ err' = d.err
    /\ decodeRuns' = decodeRuns + 1
    /\ pc' = "decoded"
    /\ UNCHANGED <<config, cfgCall, op, args, req, resp, body, closeCalls, ret>>

\* Delete returning the id of the decoded confirmation
ReturnValueServerId ==
    IF op \in ListOps THEN Returned(target, ZeroRec, "", err)
    ELSE IF op \in RecOps THEN Returned(NilList, target.rec, "", err)
    ELSE Returned(NilList, ZeroRec, target.rec.Id, err)

\* return <result>, err, and the deferred resp.Body.Close()
ReturnValue ==
    IF op \in ListOps THEN Returned(target, ZeroRec, "", err)
    ELSE IF op \in RecOps THEN Returned(NilList, target.rec, "", err)
    ELSE Returned(NilList, ZeroRec, args.rec.Id, err)

\* a return that releases the body on the success path only
ReturnLeak ==
    /\ pc = "decoded"
    /\ op \in ServiceOps
    /\ ret' = ReturnValue
    /\ closeCalls' = IF err = NoError THEN closeCalls + 1 ELSE closeCalls
    /\ body' = IF err = NoError THEN "closed" ELSE body
    /\ pc' = "done"
    /\ UNCHANGED <<config, cfgCall, op, args, req, resp, msg, target, err, decodeRuns>>

Return ==
    /\ pc = "decoded"
    /\ op \in ServiceOps
    /\ ret' = ReturnValue
    /\ closeCalls' = closeCalls + 1
    /\ body' = "closed"
    /\ pc' = "done"
    /\ UNCHANGED <<config, cfgCall, op, args, req, resp, msg, target, err, decodeRuns>>

\* a caller of the exported BaseSvc.Decode, with a response and a target of
\* its own
DecodeCall ==
    /\ Callable
    /\ \E t \in PriorTargets, b \in Bodies :
        /\ target' = t
        /\ resp' = Answer(b)
    /\ op' = "Decode"
    /\ args' = NoArgs
    /\ req' = NoRequest
    /\ body' = "open"
    /\ msg' = ZeroMessage
    /\ err' = NoError
    /\ decodeRuns' = 0
    /\ closeCalls' = 0
    /\ ret' = NoReturn
    /\ pc' = "invoked"
    /\ UNCHANGED <<config, cfgCall>>

DecodeReturn ==
    /\ pc = "decoded"
    /\ op = "Decode"
    /\ ret' = Returned(NilList, ZeroRec, "", err)
    /\ pc' = "done"
    /\ UNCHANGED <<config, cfgCall, op, args, req, resp, body, msg, target, err,
                   decodeRuns, closeCalls>>

Next ==
    \/ ZonesSvcGet
    \/ DNSRecordsSvcGet
    \/ Search
    \/ Create
    \/ Update
    \/ Delete
    \/ Invoke
    \/ ReturnAbsent
    \/ RunDecode
    \/ Return
    \/ DecodeCall
    \/ DecodeReturn

Spec == Init /\ [][Next]_vars

\* request construction of Search over all its arguments
NextSearch ==
    \/ SearchWide
    \/ InvokeFew
    \/ ReturnAbsent
    \/ RunDecode
    \/ Return

SpecSearch == Init /\ [][NextSearch]_vars

\* construction of configurations
Emails == {"", "a@example.com", "b@example.com", "c@example.com"}

Keys == {"", "k1", "k2", "k3"}

ContentTypes == {"", "application/json", "text/plain", "application/xml"}

NewConfigCall ==
    /\ \E e \in Emails, k \in Keys, c \in ContentTypes, i \in BOOLEAN :
        /\ cfgCall' = [email |-> e, key |-> k, contentType |-> c, insecureSkipVerify |-> i]
        /\ config' = NewConfig(e, k, c, i)
    /\ UNCHANGED <<pc, op, args, req, resp, body, msg, target, err, decodeRuns,
                   closeCalls, ret>>

NextConfig == NewConfigCall

SpecConfig == Init /\ [][NextConfig]_vars

----------------------------------------------------------------------------
(* Reading a query string back: split at &, then at the first =, then      *)
(* unescape, as a server does                                              *)

HexVal(c) == (CHOOSE i \in 1..16 : UpperHex[i] = c) - 1

RECURSIVE QueryUnescape(_)
QueryUnescape(s) ==
    IF s = <<>> THEN <<>>
    ELSE IF Head(s) = "+" THEN <<" ">> \o QueryUnescape(Tail(s))
    ELSE IF Head(s) = "%" /\ Len(s) >= 3
         THEN <<Chr(16 * HexVal(s[2]) + HexVal(s[3]))>> \o QueryUnescape(SubSeq(s, 4, Len(s)))
         ELSE <<Head(s)>> \o QueryUnescape(Tail(s))

RECURSIVE SplitAt(_, _, _)
SplitAt(s, sep, cur) ==
    IF s = <<>> THEN <<cur>>
    ELSE IF Head(s) = sep THEN <<cur>> \o SplitAt(Tail(s), sep, <<>>)
    ELSE SplitAt(Tail(s), sep, Append(cur, Head(s)))

ParamOf(seg) ==
    LET eqs == {i \in 1..Len(seg) : seg[i] = "="}
        cut == IF eqs = {} THEN Len(seg) + 1 ELSE CHOOSE i \in eqs : \A j \in eqs : i <= j
    IN  [k |-> QueryUnescape(SubSeq(seg, 1, cut - 1)),
         v |-> QueryUnescape(SubSeq(seg, cut + 1, Len(seg)))]

ParseQuery(q) ==
    IF q = <<>> THEN <<>>
    ELSE LET segs == SplitAt(q, "&", <<>>) IN [i \in 1..Len(segs) |-> ParamOf(segs[i])]

\* the query string of the request of a Search: what follows the ? of its URL
SentQuery == SubSeq(req.url, Len(RecordsUrl(args.zoneId)) + 2, Len(req.url))

SentParams == ParseQuery(SentQuery)

HasParam(key) == \E i \in 1..Len(SentParams) : SentParams[i].k = key

Contains(s, t) == \E i \in 0..(Len(s) - Len(t)) : SubSeq(s, i + 1, i + Len(t)) = t

SearchBuilt == op = "Search" /\ pc # "idle"

\* the transport answered and the body could be read
Answered == resp.present /\ resp.err = NoError

Finished == pc = "done" /\ op \in ServiceOps

----------------------------------------------------------------------------
(* Claims *)

\* C1 - envelope gating: a run of Decode on a body whose success is not true
\* (false, absent, of another type, or a body that does not parse) leaves
\* the caller's target exactly as it was; the target changes only when the
\* envelope's success is true.
C1_EnvelopeGating ==
    [][(pc = "invoked" /\ pc' = "decoded" /\ resp.content.success # "true")
          => target' = target]_vars

C1_Witness ==
    /\ pc = "decoded"
    /\ op = "Decode"
    /\ WellFormed(resp.content)
    /\ resp.content.success = "false"
    /\ resp.content.result.k = "obj"
    /\ resp.content.result.elems[1].id.k = "str"
    /\ target = RecTarget([Id |-> "b", Name |-> "m"])
    /\ decodeRuns = 1

\* C2 - envelope parse failure: when the body that was read is not a
\* well-formed envelope, the operation returns an error and the target is
\* left at its zero value.
C2_ParseFailureIsError ==
    (Finished /\ Answered /\ ~WellFormed(resp.content))
        => (ret.err # NoError /\ target = ZeroTarget(target.kind))

\* C3 - no partial list results: a list operation that returns an error
\* returns no element.
C3_NoPartialList ==
    (pc = "done" /\ op \in ListOps /\ ret.err # NoError) => ret.list.items = <<>>

\* C4 - silent failure: on a well-formed envelope with success=false every
\* operation returns the zero value of its result and a nil error.
C4_SilentFailure ==
    (Finished /\ Answered /\ WellFormed(resp.content) /\ resp.content.success = "false")
        => ret = Returned(NilList, ZeroRec, "", NoError)

\* C5 - pagination filter bounds: the query of a Search carries page iff
\* page > 0 and per_page iff 5 <= perPage < 100, and whatever page and
\* perPage are the request is built as a GET and handed to the transport.
C5_PaginationBounds ==
    SearchBuilt =>
        /\ HasParam(KeyPage) <=> args.page > 0
        /\ HasParam(KeyPerPage) <=> (5 <= args.perPage /\ args.perPage < 100)
        /\ req.method = "GET"
        /\ pc # "called" => resp.tried

C5_Witness ==
    /\ SearchBuilt
    /\ pc = "done"
    /\ args.page = 1
    /\ args.perPage = 99
    /\ HasParam(KeyPage)
    /\ HasParam(KeyPerPage)
    /\ resp.tried

\* C6, as claimed - a Search with a type and a name, no content, page 0 and
\* perPage 0 sends a query in which type=<type> is immediately followed by
\* &name=<name>, with no content, page or per_page parameter.
C6_TypeThenName ==
    (SearchBuilt /\ args.typeStr # <<>> /\ args.name # <<>> /\ args.content = <<>>
        /\ args.page = 0 /\ args.perPage = 0)
    => /\ Contains(SentQuery, KeyType \o <<"=">> \o QueryEscape(args.typeStr)
                              \o <<"&">> \o KeyName \o <<"=">> \o QueryEscape(args.name))
       /\ ~HasParam(KeyContent) /\ ~HasParam(KeyPage) /\ ~HasParam(KeyPerPage)

\* C6, amended - such a Search sends exactly the two parameters name and
\* type, in that order (the keys are sorted), joined by &, each value read
\* back unchanged after unescaping; and in every Search a parameter appears
\* only for a non-empty or non-zero argument, at most once.
C6_NameThenType ==
    SearchBuilt =>
        /\ (args.typeStr # <<>> /\ args.name # <<>> /\ args.content = <<>>
              /\ args.page = 0 /\ args.perPage = 0)
           => SentParams = <<[k |-> KeyName, v |-> args.name],
                             [k |-> KeyType, v |-> args.typeStr]>>
        /\ \A i \in 1..Len(SentParams) :
              /\ SentParams[i].k \in {KeyType, KeyName, KeyContent, KeyPage, KeyPerPage}
              /\ SentParams[i].k = KeyType => SentParams[i].v = args.typeStr /\ args.typeStr # <<>>
              /\ SentParams[i].k = KeyName => SentParams[i].v = args.name /\ args.name # <<>>
              /\ SentParams[i].k = KeyContent => SentParams[i].v = args.content /\ args.content # <<>>
              /\ SentParams[i].k = KeyPage => args.page # 0
              /\ SentParams[i].k = KeyPerPage => args.perPage # 0
              /\ \A j \in 1..Len(SentParams) : SentParams[j].k = SentParams[i].k => j = i

C6_Witness ==
    /\ SearchBuilt
    /\ args.typeStr = <<"A">>
    /\ args.name = <<"&", " ">>
    /\ args.content = <<>>
    /\ args.page = 0
    /\ args.perPage = 0
    /\ SentQuery = <<"n", "a", "m", "e", "=", "%", "2", "6", "+", "&",
                     "t", "y", "p", "e", "=", "A">>

\* C7 - Delete echoes the input id: on a well-formed success envelope Delete
\* returns the Id of the record it was given, whatever id the payload
\* carries, and no step of the operation changes the record it was given.
C7_DeleteEchoesInput ==
    /\ []((Finished /\ op = "Delete" /\ Answered /\ WellFormed(resp.content)
             /\ resp.content.success = "true")
          => (ret.id = args.rec.Id /\ ret.err = err))
    /\ [][pc # "idle" => args' = args]_vars

C7_Witness ==
    /\ Finished
    /\ op = "Delete"
    /\ Answered
    /\ WellFormed(resp.content)
    /\ resp.content.success = "true"
    /\ resp.content.result.k = "obj"
    /\ target.rec.Id = "a"
    /\ args.rec.Id = "b"
    /\ ret.id = "b"
    /\ ret.err = NoError

\* C8 - configuration rejection: NewConfig yields no configuration exactly
\* when email or key is empty; otherwise the Config holds the given email,
\* key and TLS flag, and the given content type, or application/json when
\* none was given.
C8_ConfigRejection ==
    /\ config.isNil <=> (cfgCall.email = "" \/ cfgCall.key = "")
    /\ ~config.isNil =>
        /\ config.email = cfgCall.email
        /\ config.key = cfgCall.key
        /\ config.insecureSkipVerify = cfgCall.insecureSkipVerify
        /\ config.contentType =
              IF cfgCall.contentType = "" THEN "application/json" ELSE cfgCall.contentType

C8_Witness ==
    /\ config.isNil
    /\ cfgCall.email # ""
    /\ cfgCall.key = ""
    /\ cfgCall.contentType = "text/plain"

C10_TransportShortCircuit ==
    (Finished /\ resp.err # NoError)
        => (ret = Returned(NilList, ZeroRec, "", resp.err) /\ decodeRuns = 0)

====
